---- MODULE Spec2Model ----
(***************************************************************************)
(* Subscription lifecycle and service-capacity accounting of the           *)
(* subscription backend: the Subscription and Service models and the      *)
(* subscription / admin routes that drive them.  Every request handler is  *)
(* split at its awaited persistence calls, so that requests interleave     *)
(* exactly where the event loop lets them.                                 *)
(***************************************************************************)
EXTENDS Integers, Sequences, FiniteSets, TLC

VARIABLES
    services,   \* Service collection: id -> document
    subs,       \* Subscription collection: sequence of documents, id = index
    req,        \* request slots: handler position and locals of each request
    now,        \* the clock read by new Date()
    cancelLog   \* history: per subscription, cancel requests accepted and
                \* counter decrements made on its behalf (see LogAfterWrite)

vars == <<services, subs, req, now, cancelLog>>

----------------------------------------------------------------------------
(* Bounds *)

MaxSubs == 2        \* subscriptions ever created by overlapping requests
LifeSubs == 1       \* subscriptions ever created in the sequential runs
MaxNow == 2         \* clock values 1..MaxNow
MaxNotes == 2       \* audit entries a notes string may hold before requests
                    \* that would add one are no longer issued
MaxPayments == 2    \* payment records per subscription

(* Program values *)

Null == -1          \* JS null / undefined
UserLimit == 5

ServiceIds == {1, 2}
ReqIds == {"a", "b"}
Users == {"u1", "u2"}
Admin == "admin"
Principals == Users \cup {Admin}

Statuses == {"pending", "active", "paused", "cancelled", "expired", "failed"}
NonTerminal == {"pending", "active", "paused", "failed"}
PaymentResults == {"pending", "success", "failed", "refunded"}

\* A string is the sequence of its pieces; the empty string is <<>>.
NL == "\n"
CancelledTag == "Cancelled: "
PausedTag == "Paused: "
Undefined == "(undefined)"         \* a string field the input does not give
NoReason == <<Undefined>>          \* the request body has no reason
Reasons == {NoReason, <<"why">>}
DefaultCancelReason == <<"User requested cancellation">>
DefaultPauseReason == <<"User requested pause">>
DefaultAdminReason == <<"Admin action">>

Quantities == {Null, 1, 2}
MaxItems == 2

BillingCycles == {"one-time", "monthly", "quarterly", "yearly"}
Currencies == {"INR", "USD"}

\* JS truthiness of a number-or-null and of a string
Truthy(x) == x # Null /\ x # 0
TruthyStr(s) == s # <<>>

\* JS a > b where a may be undefined (undefined > n is false)
Gt(a, b) == a # Null /\ a > b

----------------------------------------------------------------------------
(* Dates.  A Date is the number of its day, day 1 being 2024-01-01; the time
   of day plays no part in what follows. *)

IsLeap(y) == y % 4 = 0 /\ (y % 100 # 0 \/ y % 400 = 0)

DaysInMonth(y, m) ==
    IF m = 2 THEN (IF IsLeap(y) THEN 29 ELSE 28)
    ELSE IF m \in {4, 6, 9, 11} THEN 30 ELSE 31

RECURSIVE DaysBeforeMonth(_, _)
DaysBeforeMonth(y, m) ==
    IF m = 1 THEN 0 ELSE DaysBeforeMonth(y, m - 1) + DaysInMonth(y, m - 1)

RECURSIVE DaysBeforeYear(_)
DaysBeforeYear(y) ==
    IF y = 2024 THEN 0
    ELSE DaysBeforeYear(y - 1) + DaysBeforeMonth(y - 1, 12) + DaysInMonth(y - 1, 12)

\* The day a Date holds after its year, month (1-based, may pass 12) and day
\* of the month (may pass the end of the month) are set: months beyond
\* December carry into the year, days beyond the month into the next month.
MakeDay(y, m, d) ==
    LET yy == y + ((m - 1) \div 12)
        mm == ((m - 1) % 12) + 1
    IN  DaysBeforeYear(yy) + DaysBeforeMonth(yy, mm) + d

\* The calendar date of day n, counted on from the first of month m of year y
RECURSIVE CivilFrom(_, _, _)
CivilFrom(y, m, n) ==
    IF n > DaysInMonth(y, m)
    THEN CivilFrom(IF m = 12 THEN y + 1 ELSE y, IF m = 12 THEN 1 ELSE m + 1,
                   n - DaysInMonth(y, m))
    ELSE [y |-> y, m |-> m, d |-> n]

\* getFullYear(), getMonth() + 1 and getDate() of a Date
Civil(n) == CivilFrom(2024, 1, n)

\* date.setMonth(date.getMonth() + k)
setMonth(n, k) == MakeDay(Civil(n).y, Civil(n).m + k, Civil(n).d)

\* date.setFullYear(date.getFullYear() + k)
setFullYear(n, k) == MakeDay(Civil(n).y + k, Civil(n).m, Civil(n).d)

\* A next-billing computation that bills quarterly cycles after one month
NextBilling_quarterAsMonth(start, cycle) ==
    CASE cycle \in {"monthly", "quarterly"} -> setMonth(start, 1)
      [] cycle = "yearly" -> setFullYear(start, 1)
      [] cycle = "one-time" -> Null
      [] OTHER -> start

\* The switch of the pre-save hook on a copy of the start date
NextBilling(start, cycle) ==
    CASE cycle = "monthly" -> setMonth(start, 1)
      [] cycle = "quarterly" -> setMonth(start, 3)
      [] cycle = "yearly" -> setFullYear(start, 1)
      [] cycle = "one-time" -> Null
      [] OTHER -> start

\* A pre-save hook that computes a date for every cycle, one-time included
PreSave_noOneTime(doc, isNew, dirty, t) ==
    IF isNew \/ "startDate" \in dirty \/ "billingCycle" \in dirty
    THEN [doc EXCEPT !.nextBillingDate =
            setMonth(IF doc.startDate # Null THEN doc.startDate ELSE t, 1)]
    ELSE doc

\* subscriptionSchema.pre('save')
PreSave(doc, isNew, dirty, t) ==
    IF isNew \/ "startDate" \in dirty \/ "billingCycle" \in dirty
    THEN [doc EXCEPT !.nextBillingDate =
            NextBilling(IF doc.startDate # Null THEN doc.startDate ELSE t,
                        doc.billingCycle)]
    ELSE doc

----------------------------------------------------------------------------
(* Pricing of an order *)

\* subtotal += service.price.amount * quantity, over the line items
RECURSIVE Subtotal(_)
Subtotal(items) ==
    IF items = <<>> THEN 0
    ELSE Subtotal(SubSeq(items, 1, Len(items) - 1))
           + items[Len(items)].priceAtSubscription.amount * items[Len(items)].quantity

\* Taxes that drop the fraction instead of rounding
Taxes_truncated(subtotal) == (18 * subtotal) \div 100

\* Math.round(subtotal * 0.18): the nearest integer, a half going up
Taxes(subtotal) == (18 * subtotal + 50) \div 100

----------------------------------------------------------------------------
(* Documents *)

\* Service configurations an administrator may have stored
CapChoices == {0, 1, 2}

NewService(cap) ==
    [ isActive |-> TRUE,
      maxSubscriptions |-> cap,
      currentSubscriptions |-> 0,
      maxQuantityPerUser |-> 1,
      category |-> "Cable",
      amount |-> 500,
      currency |-> "INR",
      priceBillingCycle |-> "monthly",
      maxOnlineOrderValue |-> Null ]

\* The document new Subscription({...}) builds in the creation handler
NewSubscription(user, items, cycle, t) ==
    [ userId |-> user,
      services |-> items,
      pricing |-> [ subtotal |-> Subtotal(items),
                    taxes |-> Taxes(Subtotal(items)),
                    discounts |-> 0,
                    total |-> Subtotal(items) + Taxes(Subtotal(items)),
                    currency |-> "INR" ],
      billingCycle |-> IF cycle = Undefined THEN "monthly" ELSE cycle,
      address |-> "home",
      startDate |-> t,
      nextBillingDate |-> Null,
      status |-> "pending",
      paymentStatus |-> "pending",
      cancelledDate |-> Null,
      pausedDate |-> Null,
      lastPaymentDate |-> Null,
      notes |-> <<>>,
      paymentHistory |-> <<>> ]

SubIds == 1..Len(subs)

NoDoc == [ userId |-> "none" ]

\* The message of a response: the check that refused, and the service it names
NoMsg == [ check |-> "none", service |-> 0 ]

Idle ==
    [ op |-> "none", pc |-> "idle", user |-> "none", sid |-> 0,
      body |-> <<>>, doc |-> NoDoc, dirty |-> {}, found |-> <<>>, idx |-> 0,
      resp |-> 0, msg |-> NoMsg ]

Busy(r) == req[r].pc # "idle"

\* res.status(code).json(...): the handler has answered and is about to return
Respond(r, code) ==
    [req EXCEPT ![r] = [Idle EXCEPT !.pc = "respond", !.op = req[r].op,
                                    !.sid = req[r].sid, !.resp = code]]

\* res.status(400).json({message}) of a check of the creation request
Refuse(r, check, service) ==
    [Respond(r, 400) EXCEPT ![r].msg = [check |-> check, service |-> service]]

\* Mongoose save() of a loaded document: the pre-save hook runs, then only
\* the modified paths are written
SaveFields(old, doc, dirty) ==
    LET hooked == PreSave(doc, FALSE, dirty, now)
        written == dirty \cup {f \in DOMAIN doc : hooked[f] # doc[f]}
    IN  [f \in DOMAIN old |-> IF f \in written THEN hooked[f] ELSE old[f]]

\* A save that skips the schema validators
ValidSubscription_skipped(doc) == TRUE

\* The schema validators that run before a save
ValidSubscription(doc) ==
    /\ doc.billingCycle \in BillingCycles
    /\ doc.pricing.subtotal >= 0 /\ doc.pricing.taxes >= 0 /\ doc.pricing.total >= 0
    /\ doc.pricing.currency \in Currencies
    /\ \A i \in DOMAIN doc.services : doc.services[i].quantity >= 1

\* Number of audit entries in a notes string
Entries(notes) ==
    Cardinality({i \in DOMAIN notes : notes[i] \in {CancelledTag, PausedTag}})

\* Requests in flight that may still append an audit entry to subscription id
Appenders(id) ==
    Cardinality({r \in ReqIds : Busy(r) /\ req[r].sid = id
                                /\ req[r].op \in {"cancel", "pause", "admin"}})

NotesRoom(id) ==
    (IF id \in SubIds THEN Entries(subs[id].notes) ELSE 0) + Appenders(id) < MaxNotes

----------------------------------------------------------------------------
(* History of accepted cancel requests *)

NoCancels == [accepted |-> 0, decs |-> [s \in ServiceIds |-> 0]]

\* The history of a subscription starts afresh when a write takes it out of
\* status cancelled again (an administrator's override).
LogAfterWrite(id, old, new) ==
    IF old.status = "cancelled" /\ new.status # "cancelled"
    THEN [cancelLog EXCEPT ![id] = NoCancels]
    ELSE cancelLog

----------------------------------------------------------------------------
(* Subscription model methods (local mutation; the save is the next step) *)

\* cancel() that overwrites the notes instead of appending to them
cancel_overwritesNotes(doc, reason, t) ==
    [doc EXCEPT !.status = "cancelled",
                !.cancelledDate = t,
                !.notes = <<CancelledTag>> \o reason]

\* subscriptionSchema.methods.cancel, up to the save() call
cancel(doc, reason, t) ==
    [doc EXCEPT !.status = "cancelled",
                !.cancelledDate = t,
                !.notes = IF TruthyStr(doc.notes)
                          THEN doc.notes \o <<NL, CancelledTag>> \o reason
                          ELSE <<CancelledTag>> \o reason]

\* subscriptionSchema.methods.pause, up to the save() call
pause(doc, reason, t) ==
    [doc EXCEPT !.status = "paused",
                !.pausedDate = t,
                !.notes = IF TruthyStr(doc.notes)
                          THEN doc.notes \o <<NL, PausedTag>> \o reason
                          ELSE <<PausedTag>> \o reason]

\* resume() that leaves pausedDate as it is
resume_keepsPausedDate(doc) == [doc EXCEPT !.status = "active"]

\* subscriptionSchema.methods.resume, up to the save() call
resume(doc) == [doc EXCEPT !.status = "active", !.pausedDate = Null]

\* The record Mongoose stores for a pushed payment (schema defaults applied)
StoredPayment(data, t) ==
    [status |-> IF data.status = Undefined THEN "pending" ELSE data.status,
     paidAt |-> IF data.paidAt = Null THEN t ELSE data.paidAt]

\* addPayment() that marks the subscription paid whatever the record's status
addPayment_alwaysPaid(doc, data, t) ==
    [doc EXCEPT !.paymentHistory = Append(@, StoredPayment(data, t)),
                !.paymentStatus = "paid",
                !.lastPaymentDate = IF Truthy(data.paidAt) THEN data.paidAt ELSE t]

\* subscriptionSchema.methods.addPayment, up to the save() call
addPayment(doc, data, t) ==
    LET pushed == [doc EXCEPT !.paymentHistory = Append(@, StoredPayment(data, t))]
    IN  IF data.status = "success"
        THEN [pushed EXCEPT !.paymentStatus = "paid",
                            !.lastPaymentDate = IF Truthy(data.paidAt)
                                                THEN data.paidAt ELSE t]
        ELSE pushed

\* The paths Mongoose marks modified: those whose value was changed
Changed(old, new) == {f \in DOMAIN old : old[f] # new[f]}

----------------------------------------------------------------------------
(* Service model methods *)

\* incrementSubscriptions that saves the counter as it was loaded
incrementSubscriptions_unchanged(svc) == svc.currentSubscriptions

\* serviceSchema.methods.incrementSubscriptions on a loaded document
incrementSubscriptions(svc) == svc.currentSubscriptions + 1

\* decrementSubscriptions without its floor at 0
decrementSubscriptions_noFloor(svc) == svc.currentSubscriptions - 1

\* serviceSchema.methods.decrementSubscriptions on a loaded document
decrementSubscriptions(svc) ==
    IF svc.currentSubscriptions > 0
    THEN svc.currentSubscriptions - 1
    ELSE svc.currentSubscriptions

----------------------------------------------------------------------------
(* POST /api/subscriptions *)

Items == [serviceId : ServiceIds, quantity : Quantities]

RECURSIVE SeqsUpTo(_, _)
SeqsUpTo(S, n) ==
    IF n = 0 THEN {<<>>}
    ELSE LET shorter == SeqsUpTo(S, n - 1)
         IN  shorter \cup {Append(q, x) : q \in {p \in shorter : Len(p) = n - 1}, x \in S}

ItemLists == SeqsUpTo(Items, MaxItems)

\* Creation requests in flight that have not inserted their subscription yet
Creating ==
    Cardinality({r \in ReqIds : req[r].op = "create" /\ req[r].pc \in {"find", "save"}})

\* validateSubscriptionLimits
ActiveCount(u) ==
    Cardinality({id \in SubIds : subs[id].userId = u /\ subs[id].status = "active"})

\* The request arrives and the middleware counts the user's active subscriptions
CreateLimits(r, u, items, cycle) ==
    /\ ~Busy(r)
    /\ LET arrived == [req EXCEPT ![r] = [Idle EXCEPT !.op = "create", !.pc = "find",
                                                      !.user = u,
                                                      !.body = [services |-> items,
                                                                billingCycle |-> cycle]]]
       IN  req' = IF ActiveCount(u) + Len(items) > UserLimit
                  THEN [arrived EXCEPT ![r].pc = "respond", ![r].body = <<>>,
                                       ![r].user = "none", ![r].resp = 400,
                                       ![r].msg = [check |-> "limit", service |-> 0]]
                  ELSE arrived
    /\ UNCHANGED <<services, subs, now, cancelLog>>

\* Service.find({_id: {$in: ids}, 'availability.isActive': true}), in id order
RECURSIVE InOrder(_)
InOrder(S) ==
    IF S = {} THEN <<>>
    ELSE LET m == CHOOSE x \in S : \A y \in S : x <= y
         IN  <<m>> \o InOrder(S \ {m})

\* A lookup that does not filter on availability.isActive
FoundIds_anyService(items) == {items[i].serviceId : i \in DOMAIN items}

FoundIds(items) ==
    {items[i].serviceId : i \in DOMAIN items} \cap
        {s \in ServiceIds : services[s].isActive}

\* The per-item checks of the handler, in the order of the loop body: the
\* first one that refuses the item, or "ok"
ItemCheck(item) ==
    LET service == services[item.serviceId]
    IN  IF Gt(item.quantity, service.maxQuantityPerUser) THEN "quantity"
        ELSE IF /\ Truthy(service.maxSubscriptions)
                /\ service.currentSubscriptions >= service.maxSubscriptions
             THEN "capacity"
        ELSE IF /\ service.category = "Silver"
                /\ Truthy(service.maxOnlineOrderValue)
                /\ item.quantity # Null
                /\ service.amount * item.quantity > service.maxOnlineOrderValue
             THEN "quote"
        ELSE "ok"

ItemRejected(item) == ItemCheck(item) # "ok"

\* The item at which the loop over the order returns
FirstRejected(items) ==
    CHOOSE i \in DOMAIN items :
        /\ ItemRejected(items[i])
        /\ \A j \in 1..(i - 1) : ~ItemRejected(items[j])

StoredItems(items) ==
    [i \in DOMAIN items |->
        [serviceId |-> items[i].serviceId,
         quantity |-> IF Truthy(items[i].quantity) THEN items[i].quantity ELSE 1,
         priceAtSubscription |->
            [amount |-> services[items[i].serviceId].amount,
             currency |-> services[items[i].serviceId].currency,
             billingCycle |-> services[items[i].serviceId].priceBillingCycle]]]

CreateFind(r) ==
    /\ req[r].op = "create" /\ req[r].pc = "find"
    /\ LET items == req[r].body.services
           ids == FoundIds(items)
       IN  req' =
             IF items = <<>> THEN Refuse(r, "validation", 0)
             ELSE IF Cardinality(ids) # Len(items) THEN Refuse(r, "unavailable", 0)
             ELSE IF \E i \in DOMAIN items : ItemRejected(items[i])
                  THEN Refuse(r, ItemCheck(items[FirstRejected(items)]),
                              items[FirstRejected(items)].serviceId)
             ELSE [req EXCEPT ![r].pc = "save",
                              ![r].doc = NewSubscription(req[r].user, StoredItems(items),
                                                         req[r].body.billingCycle, now),
                              ![r].found = [i \in 1..Cardinality(ids) |->
                                              [id |-> InOrder(ids)[i],
                                               doc |-> services[InOrder(ids)[i]]]]]
    /\ UNCHANGED <<services, subs, now, cancelLog>>

\* await subscription.save(): validation, the pre-save hook, then the insert
CreateSave(r) ==
    /\ req[r].op = "create" /\ req[r].pc = "save"
    /\ IF ValidSubscription(req[r].doc)
       THEN /\ subs' = Append(subs, PreSave(req[r].doc, TRUE, {}, now))
            /\ req' = [req EXCEPT ![r].pc = "inc", ![r].sid = Len(subs) + 1,
                                   ![r].idx = 1]
       ELSE /\ subs' = subs
            /\ req' = Respond(r, 500)
    /\ UNCHANGED <<services, now, cancelLog>>

\* for (const service of foundServices) await service.incrementSubscriptions()
CreateInc(r) ==
    /\ req[r].op = "create" /\ req[r].pc = "inc"
    /\ LET f == req[r].found[req[r].idx]
       IN  services' = [services EXCEPT
                          ![f.id].currentSubscriptions = incrementSubscriptions(f.doc)]
    /\ req' = IF req[r].idx = Len(req[r].found)
              THEN Respond(r, 201)
              ELSE [req EXCEPT ![r].idx = @ + 1]
    /\ UNCHANGED <<subs, now, cancelLog>>

----------------------------------------------------------------------------
(* PUT /api/subscriptions/:id/cancel *)

\* const { reason = default } = req.body
ReasonOr(reason, default) == IF reason = NoReason THEN default ELSE reason

\* An ownership check that lets every authenticated user through
Denied_nobody(u, id) == FALSE

\* req.user.role !== 'admin' && subscription.userId !== req.user._id
Denied(u, id) == u # Admin /\ subs[id].userId # u

\* The request arrives; findById, the ownership and status guards, then the
\* local cancel() up to its save()
CancelLoad(r, u, id, reason) ==
    /\ ~Busy(r)
    /\ NotesRoom(id)
    /\ LET answer(code) == [req EXCEPT ![r] = [Idle EXCEPT !.op = "cancel", !.user = u,
                                                 !.sid = id, !.pc = "respond",
                                                 !.resp = code]]
       IN  req' =
             IF id \notin SubIds THEN answer(404)
             ELSE IF Denied(u, id) THEN answer(403)
             ELSE IF subs[id].status \in {"cancelled", "expired"} THEN answer(400)
             ELSE [req EXCEPT ![r] =
                     [Idle EXCEPT !.op = "cancel", !.pc = "save", !.user = u, !.sid = id,
                                  !.body = ReasonOr(reason, DefaultCancelReason),
                                  !.doc = cancel(subs[id],
                                                 ReasonOr(reason, DefaultCancelReason), now),
                                  !.dirty =
                                     Changed(subs[id],
                                             cancel(subs[id],
                                                    ReasonOr(reason, DefaultCancelReason),
                                                    now))]]
    /\ UNCHANGED <<services, subs, now, cancelLog>>

CancelSave(r) ==
    /\ req[r].op = "cancel" /\ req[r].pc = "save"
    /\ LET id == req[r].sid
       IN  /\ subs' = [subs EXCEPT ![id] = SaveFields(@, req[r].doc, req[r].dirty)]
           /\ cancelLog' = [cancelLog EXCEPT ![id].accepted = @ + 1]
    /\ req' = [req EXCEPT ![r].pc = "dec_load", ![r].idx = 1]
    /\ UNCHANGED <<services, now>>

\* const serviceDoc = await Service.findById(service.serviceId)
CancelDecLoad(r) ==
    /\ req[r].op = "cancel" /\ req[r].pc = "dec_load"
    /\ LET s == req[r].doc.services[req[r].idx].serviceId
       IN  req' = [req EXCEPT ![r].pc = "dec_save",
                              ![r].found = <<[id |-> s, doc |-> services[s]]>>]
    /\ UNCHANGED <<services, subs, now, cancelLog>>

\* await serviceDoc.decrementSubscriptions()
CancelDecSave(r) ==
    /\ req[r].op = "cancel" /\ req[r].pc = "dec_save"
    /\ LET f == req[r].found[1]
           v == decrementSubscriptions(f.doc)
       IN  IF v # f.doc.currentSubscriptions
           THEN /\ services' = [services EXCEPT ![f.id].currentSubscriptions = v]
                /\ cancelLog' = [cancelLog EXCEPT ![req[r].sid].decs[f.id] = @ + 1]
           ELSE UNCHANGED <<services, cancelLog>>
    /\ req' = IF req[r].idx = Len(req[r].doc.services)
              THEN Respond(r, 200)
              ELSE [req EXCEPT ![r].pc = "dec_load", ![r].idx = @ + 1]
    /\ UNCHANGED <<subs, now>>

----------------------------------------------------------------------------

(* PUT /api/subscriptions/:id/pause *)

Answer(r, op, u, id, code) ==
    [req EXCEPT ![r] = [Idle EXCEPT !.op = op, !.user = u, !.sid = id,
                                    !.pc = "respond", !.resp = code]]

Loaded(r, op, u, id, new) ==
    [req EXCEPT ![r] = [Idle EXCEPT !.op = op, !.pc = "save", !.user = u, !.sid = id,
                                    !.doc = new, !.dirty = Changed(subs[id], new)]]

PauseLoad(r, u, id, reason) ==
    /\ ~Busy(r)
    /\ NotesRoom(id)
    /\ req' =
         IF id \notin SubIds THEN Answer(r, "pause", u, id, 404)
         ELSE IF Denied(u, id) THEN Answer(r, "pause", u, id, 403)
         ELSE IF subs[id].status # "active" THEN Answer(r, "pause", u, id, 400)
         ELSE [Loaded(r, "pause", u, id,
                      pause(subs[id], ReasonOr(reason, DefaultPauseReason), now))
                 EXCEPT ![r].body = ReasonOr(reason, DefaultPauseReason)]
    /\ UNCHANGED <<services, subs, now, cancelLog>>

\* The save() of a loaded subscription reaches the store
SubSave(r, op) ==
    /\ req[r].op = op /\ req[r].pc = "save"
    /\ LET id == req[r].sid
           new == SaveFields(subs[id], req[r].doc, req[r].dirty)
       IN  /\ subs' = [subs EXCEPT ![id] = new]
           /\ cancelLog' = LogAfterWrite(id, subs[id], new)
    /\ req' = Respond(r, 200)
    /\ UNCHANGED <<services, now>>

PauseSave(r) == SubSave(r, "pause")

(* PUT /api/subscriptions/:id/resume *)

ResumeLoad(r, u, id) ==
    /\ ~Busy(r)
    /\ req' =
         IF id \notin SubIds THEN Answer(r, "resume", u, id, 404)
         ELSE IF Denied(u, id) THEN Answer(r, "resume", u, id, 403)
         ELSE IF subs[id].status # "paused" THEN Answer(r, "resume", u, id, 400)
         ELSE Loaded(r, "resume", u, id, resume(subs[id]))
    /\ UNCHANGED <<services, subs, now, cancelLog>>

ResumeSave(r) == SubSave(r, "resume")

----------------------------------------------------------------------------
(* PUT /api/subscriptions/:id *)

Addresses == {Undefined, "office"}

\* An update that also prices the subscription anew, at the services'
\* current prices
UpdateFields_reprices(doc, address) ==
    LET items == [i \in DOMAIN doc.services |->
                    [doc.services[i] EXCEPT
                       !.priceAtSubscription.amount = services[doc.services[i].serviceId].amount]]
    IN  [doc EXCEPT !.address = IF address # Undefined THEN address ELSE @,
                    !.services = items,
                    !.pricing.subtotal = Subtotal(items),
                    !.pricing.taxes = Taxes(Subtotal(items)),
                    !.pricing.total = Subtotal(items) + Taxes(Subtotal(items))]

\* An update that also marks the subscription active
UpdateFields_activates(doc, address) ==
    [doc EXCEPT !.address = IF address # Undefined THEN address ELSE @,
                !.status = "active"]

\* if (address) subscription.address = {...subscription.address, ...address}
UpdateFields(doc, address) ==
    IF address # Undefined THEN [doc EXCEPT !.address = address] ELSE doc

UpdateLoad(r, u, id, address) ==
    /\ ~Busy(r)
    /\ req' =
         IF id \notin SubIds THEN Answer(r, "update", u, id, 404)
         ELSE IF Denied(u, id) THEN Answer(r, "update", u, id, 403)
         ELSE IF subs[id].status \notin {"pending", "active"}
              THEN Answer(r, "update", u, id, 400)
         ELSE [Loaded(r, "update", u, id, UpdateFields(subs[id], address))
                 EXCEPT ![r].body = address]
    /\ UNCHANGED <<services, subs, now, cancelLog>>

UpdateSave(r) == SubSave(r, "update")

----------------------------------------------------------------------------
(* PUT /api/admin/subscriptions/:id/status *)

\* An override that assigns the status field whatever the target
AdminSwitch_bareAssign(doc, status, reason, t) == [doc EXCEPT !.status = status]

\* The switch of the handler, up to the save() it ends in
AdminSwitch(doc, status, reason, t) ==
    CASE status = "cancelled" -> cancel(doc, reason, t)
      [] status = "paused" -> pause(doc, reason, t)
      [] status = "active" -> IF doc.status = "paused"
                              THEN resume(doc)
                              ELSE [doc EXCEPT !.status = status]
      [] OTHER -> [doc EXCEPT !.status = status]

AdminLoad(r, id, status, reason) ==
    /\ ~Busy(r)
    /\ NotesRoom(id)
    /\ req' =
         IF id \notin SubIds THEN Answer(r, "admin", Admin, id, 404)
         ELSE [Loaded(r, "admin", Admin, id,
                      AdminSwitch(subs[id], status,
                                  ReasonOr(reason, DefaultAdminReason), now))
                 EXCEPT ![r].body = [status |-> status,
                                     reason |-> ReasonOr(reason, DefaultAdminReason)]]
    /\ UNCHANGED <<services, subs, now, cancelLog>>

\* The save; the populate that follows only reads, for the response
AdminSave(r) == SubSave(r, "admin")

----------------------------------------------------------------------------
(* A payment event: a loaded subscription's addPayment(paymentData) *)

PaymentInputs == [status : {Undefined, "success", "failed"}, paidAt : {Null, 1}]

PaymentLoad(r, id, data) ==
    /\ ~Busy(r)
    /\ id \in SubIds => Len(subs[id].paymentHistory) < MaxPayments
    /\ req' =
         IF id \notin SubIds THEN Answer(r, "payment", Admin, id, 404)
         ELSE [Loaded(r, "payment", Admin, id, addPayment(subs[id], data, now))
                 EXCEPT ![r].body = data]
    /\ UNCHANGED <<services, subs, now, cancelLog>>

\* Mongoose sends an array push as $push and the other modified paths as $set
PaymentSave(r) ==
    /\ req[r].op = "payment" /\ req[r].pc = "save"
    /\ LET id == req[r].sid
           doc == req[r].doc
       IN  subs' = [subs EXCEPT ![id] =
                      [SaveFields(@, doc, req[r].dirty \ {"paymentHistory"})
                         EXCEPT !.paymentHistory =
                                  Append(subs[id].paymentHistory,
                                         doc.paymentHistory[Len(doc.paymentHistory)])]]
    /\ req' = Respond(r, 200)
    /\ UNCHANGED <<services, now, cancelLog>>

----------------------------------------------------------------------------

\* The handler returns; its locals are gone
Finish(r) ==
    /\ req[r].pc = "respond"
    /\ req' = [req EXCEPT ![r] = Idle]
    /\ UNCHANGED <<services, subs, now, cancelLog>>

Tick ==
    /\ now < MaxNow
    /\ now' = now + 1
    /\ UNCHANGED <<services, subs, req, cancelLog>>

Init ==
    /\ services \in {[s \in ServiceIds |-> NewService(IF s = 1 THEN c ELSE Null)] :
                        c \in CapChoices}
    /\ subs = <<>>
    /\ req = [r \in ReqIds |-> Idle]
    /\ now = 1
    /\ cancelLog = [id \in 1..MaxSubs |-> NoCancels]

----------------------------------------------------------------------------
(* Overlapping creation and cancellation requests *)

RaceItemLists ==
    {q \in ItemLists : /\ q # <<>>
                       /\ q[1].serviceId = 1
                       /\ \A i \in DOMAIN q : q[i].quantity = Null}

RaceBegin(r) ==
    \/ /\ Len(subs) + Creating < MaxSubs
       /\ \E items \in RaceItemLists : CreateLimits(r, "u1", items, Undefined)
    \/ \E id \in 1..MaxSubs : CancelLoad(r, "u1", id, NoReason)

RaceStep(r) ==
    \/ CreateFind(r)
    \/ CreateSave(r)
    \/ CreateInc(r)
    \/ CancelSave(r)
    \/ CancelDecLoad(r)
    \/ CancelDecSave(r)
    \/ Finish(r)

RaceNext ==
    \/ \E r \in ReqIds : RaceBegin(r)
    \/ \E r \in ReqIds : RaceStep(r)

RaceSpec == Init /\ [][RaceNext]_vars

----------------------------------------------------------------------------
(* The whole API, one request at a time *)

Quiet == \A r \in ReqIds : ~Busy(r)

\* Subscription the pause, resume, override and payment requests address
Targets == {1}

\* Orders of the sequential runs: empty, or for service 1 first
LifeItemLists == {q \in ItemLists : q # <<>> => q[1].serviceId = 1}

Begin(r) ==
    /\ Quiet
    /\ \/ /\ Len(subs) < LifeSubs
          /\ \E items \in LifeItemLists : CreateLimits(r, "u1", items, Undefined)
       \/ \E u \in Principals, id \in 1..MaxSubs, reason \in Reasons :
             CancelLoad(r, u, id, reason)
       \/ \E u \in Principals, id \in Targets, reason \in Reasons :
             PauseLoad(r, u, id, reason)
       \/ \E u \in Principals, id \in Targets : ResumeLoad(r, u, id)
       \/ \E id \in Targets, status \in Statuses, reason \in Reasons :
             AdminLoad(r, id, status, reason)
       \/ \E u \in Principals, id \in Targets, address \in Addresses :
             UpdateLoad(r, u, id, address)

Step(r) ==
    \/ RaceStep(r)
    \/ PauseSave(r)
    \/ ResumeSave(r)
    \/ AdminSave(r)
    \/ UpdateSave(r)

Next ==
    \/ Begin("a")
    \/ \E r \in ReqIds : Step(r)
    \/ Tick

Spec == Init /\ [][Next]_vars

----------------------------------------------------------------------------
(* Payment events on a subscription in any status, one request at a time *)

PayBegin(r) ==
    /\ Quiet
    /\ \/ /\ Len(subs) < LifeSubs
          /\ CreateLimits(r, "u1", <<[serviceId |-> 1, quantity |-> Null]>>, Undefined)
       \/ \E id \in Targets, status \in Statuses : AdminLoad(r, id, status, NoReason)
       \/ \E id \in Targets, data \in PaymentInputs : PaymentLoad(r, id, data)

PayStep(r) ==
    \/ CreateFind(r)
    \/ CreateSave(r)
    \/ CreateInc(r)
    \/ AdminSave(r)
    \/ PaymentSave(r)
    \/ Finish(r)

PayNext ==
    \/ PayBegin("a")
    \/ \E r \in ReqIds : PayStep(r)
    \/ Tick

PaySpec == Init /\ [][PayNext]_vars

----------------------------------------------------------------------------
(* Orders against services of every configuration, one request at a time *)

\* Configurations of service 1 that the admin service routes store: the
\* request body is spread into the document, and the schema puts no bound
\* on the availability and constraints fields
OrderConfigs ==
    { [NewService(Null) EXCEPT !.maxQuantityPerUser = 3],
      [NewService(Null) EXCEPT !.category = "Silver", !.amount = 6000,
                               !.maxOnlineOrderValue = 10000,
                               !.maxQuantityPerUser = 2],
      [NewService(Null) EXCEPT !.category = "Silver", !.amount = 20000,
                               !.maxOnlineOrderValue = 10000],
      [NewService(Null) EXCEPT !.amount = 25, !.currency = "USD",
                               !.maxQuantityPerUser = 0],
      [NewService(1) EXCEPT !.currentSubscriptions = 1],
      NewService(0),
      [NewService(Null) EXCEPT !.isActive = FALSE] }

OrderQuantities == {Null, 1, 2, 4}

\* Orders: empty, or for service 1 first
OrderItemLists ==
    {q \in SeqsUpTo([serviceId : ServiceIds, quantity : OrderQuantities], MaxItems) :
        q # <<>> => q[1].serviceId = 1}

\* billingCycle of the request body: absent, or a value the schema refuses
OrderCycles == {Undefined, "weekly"}

OrderInit ==
    /\ services \in {[s \in ServiceIds |-> IF s = 1 THEN c ELSE NewService(Null)] :
                        c \in OrderConfigs}
    /\ subs = <<>>
    /\ req = [r \in ReqIds |-> Idle]
    /\ now = 1
    /\ cancelLog = [id \in 1..MaxSubs |-> NoCancels]

OrderBegin(r) ==
    /\ Quiet
    /\ \/ /\ Len(subs) < LifeSubs
          /\ \E items \in OrderItemLists, cycle \in OrderCycles :
                CreateLimits(r, "u1", items, cycle)
       \/ \E id \in Targets : CancelLoad(r, "u1", id, NoReason)
       \/ \E id \in Targets : UpdateLoad(r, "u1", id, "office")

OrderStep(r) ==
    \/ RaceStep(r)
    \/ UpdateSave(r)

OrderNext ==
    \/ OrderBegin("a")
    \/ \E r \in ReqIds : OrderStep(r)

OrderSpec == OrderInit /\ [][OrderNext]_vars

----------------------------------------------------------------------------
(* One user's orders and an administrator's activations, one request at a
   time *)

\* Subscriptions ever created here: one more than the per-user limit
LimitSubs == UserLimit + 1

LimitBegin(r) ==
    /\ Quiet
    /\ \/ /\ Len(subs) < LimitSubs
          /\ CreateLimits(r, "u1", <<[serviceId |-> 2, quantity |-> Null]>>, Undefined)
       \/ \E id \in 1..LimitSubs : AdminLoad(r, id, "active", NoReason)

LimitStep(r) ==
    \/ CreateFind(r)
    \/ CreateSave(r)
    \/ CreateInc(r)
    \/ AdminSave(r)
    \/ Finish(r)

LimitNext ==
    \/ LimitBegin("a")
    \/ \E r \in ReqIds : LimitStep(r)

LimitSpec == Init /\ [][LimitNext]_vars

----------------------------------------------------------------------------
(* Billing dates: a subscription of any billing cycle created on any of a
   few days, then its lifecycle, one request at a time *)

\* Days on which the subscription is created
BillDates ==
    { MakeDay(2024, 1, 15), MakeDay(2024, 1, 31), MakeDay(2024, 2, 29),
      MakeDay(2024, 10, 31), MakeDay(2024, 11, 30), MakeDay(2024, 12, 15) }

\* billingCycle of the request body: absent, or a value of the schema's enum
BillCycles == BillingCycles \cup {Undefined}

BillInit ==
    /\ services = [s \in ServiceIds |-> NewService(Null)]
    /\ subs = <<>>
    /\ req = [r \in ReqIds |-> Idle]
    /\ now \in BillDates
    /\ cancelLog = [id \in 1..MaxSubs |-> NoCancels]

BillBegin(r) ==
    /\ Quiet
    /\ \/ /\ Len(subs) < LifeSubs
          /\ \E cycle \in BillCycles :
                CreateLimits(r, "u1", <<[serviceId |-> 1, quantity |-> Null]>>, cycle)
       \/ \E id \in Targets : CancelLoad(r, "u1", id, NoReason)
       \/ \E id \in Targets : PauseLoad(r, "u1", id, NoReason)
       \/ \E id \in Targets : ResumeLoad(r, "u1", id)
       \/ \E id \in Targets : AdminLoad(r, id, "active", NoReason)
       \/ \E id \in Targets : UpdateLoad(r, "u1", id, "office")
       \/ \E id \in Targets :
             PaymentLoad(r, id, [status |-> "success", paidAt |-> Null])

BillStep(r) ==
    \/ Step(r)
    \/ PaymentSave(r)

BillNext ==
    \/ BillBegin("a")
    \/ \E r \in ReqIds : BillStep(r)

BillSpec == BillInit /\ [][BillNext]_vars

----------------------------------------------------------------------------
(* Steps, as the properties below name them *)

\* Request slot r takes up a request in this step
Arrives(r) == ~Busy(r) /\ req'[r].pc # "idle"

\* The request that arrives at r is answered with an error at once
Rejected(r) == req'[r].pc = "respond" /\ req'[r].resp >= 400

\* The save() of a loaded subscription by r reaches the store in this step
Saves(r) == req[r].pc = "save" /\ req'[r].pc # "save" /\ req[r].op # "create"

\* r's decrementSubscriptions() save reaches the store in this step
Decrements(r) == req[r].pc = "dec_save" /\ req'[r].pc # "dec_save"

CancelledOrExpired == {"cancelled", "expired"}

----------------------------------------------------------------------------
(* Service counters under overlapping requests (RaceSpec) *)

\* C1: in every reachable state, every service whose maxSubscriptions is
\* set (non-null) has currentSubscriptions <= maxSubscriptions.
C1_CapNeverExceeded ==
    \A s \in ServiceIds :
        services[s].maxSubscriptions # Null
            => services[s].currentSubscriptions <= services[s].maxSubscriptions

\* Subscriptions holding a line item for service s
Referencing(s) ==
    {id \in SubIds : \E i \in DOMAIN subs[id].services : subs[id].services[i].serviceId = s}

\* C2: once N creation requests against a service with maxSubscriptions = N
\* have all succeeded (and nothing was cancelled), whatever the interleaving
\* of their steps, the service's currentSubscriptions is N, so that every
\* further creation request for it is rejected.
C2_CounterCountsCreations ==
    \A s \in ServiceIds :
        LET n == services[s].maxSubscriptions
        IN  (/\ n # Null /\ n >= 1
             /\ Quiet
             /\ Cardinality(Referencing(s)) = n
             /\ \A id \in Referencing(s) : subs[id].status = "pending")
            => /\ services[s].currentSubscriptions = n
               /\ \A q \in RaceItemLists :
                     (\E i \in DOMAIN q : q[i].serviceId = s)
                         => \E i \in DOMAIN q : ItemRejected(q[i])

\* C3: every service's currentSubscriptions is >= 0 in every reachable
\* state, under any interleaving of creation and cancellation requests, and
\* a decrement of a service document whose counter is 0 leaves the counter
\* at 0 (it writes nothing).
C3_CounterNeverNegative ==
    /\ [](\A s \in ServiceIds : services[s].currentSubscriptions >= 0)
    /\ [][\A r \in ReqIds :
            (Decrements(r) /\ req[r].found[1].doc.currentSubscriptions = 0)
                => services' = services]_vars

\* A cancel request is past the decrement of its first service, the counter
\* stood at 0 when it got there and stands at 0 now.
C3_Witness ==
    \E r \in ReqIds :
        /\ req[r].op = "cancel" /\ req[r].pc = "dec_load" /\ req[r].idx = 2
        /\ LET s == req[r].doc.services[1].serviceId
           IN  /\ cancelLog[req[r].sid].decs[s] = 0
               /\ services[s].currentSubscriptions = 0

\* C8: over any interleaving of cancel requests on one subscription,
\* exactly one is accepted and the counter of each of its services is
\* decremented at most once in total.
C8_OneCancelCounts ==
    \A id \in 1..MaxSubs :
        /\ cancelLog[id].accepted <= 1
        /\ \A s \in ServiceIds : cancelLog[id].decs[s] <= 1

----------------------------------------------------------------------------
(* Lifecycle operations, one request at a time (Spec) *)

\* A notes string with one more audit entry
WithEntry(notes, tag, reason) ==
    IF notes = <<>> THEN <<tag>> \o reason ELSE notes \o <<NL, tag>> \o reason

\* The request in flight at r, past its guards, performs a cancel / a pause
IsCancel(q) == q.op = "cancel" \/ (q.op = "admin" /\ q.body.status = "cancelled")
IsPause(q) == q.op = "pause" \/ (q.op = "admin" /\ q.body.status = "paused")
ReasonOf(q) == IF q.op = "admin" THEN q.body.reason ELSE q.body

\* A cancel / pause request arrives at r, by either entry point
ArrivesCancel(r) ==
    /\ Arrives(r)
    /\ \/ req'[r].op = "cancel"
       \/ req'[r].op = "admin" /\ req'[r].pc = "save" /\ req'[r].body.status = "cancelled"

ArrivesPause(r) ==
    /\ Arrives(r)
    /\ \/ req'[r].op = "pause"
       \/ req'[r].op = "admin" /\ req'[r].pc = "save" /\ req'[r].body.status = "paused"

\* Only subscription id changes, and becomes new
OnlySub(id, new) == subs' = [subs EXCEPT ![id] = new]

\* C4: a cancel of a subscription that is already cancelled or expired is
\* rejected and leaves the subscription unchanged, by the user's cancel
\* request and by the admin status override with target cancelled alike.
C4_CancelRejectedWhenOver ==
    [][\A r \in ReqIds :
         /\ (/\ ArrivesCancel(r)
             /\ req'[r].sid \in SubIds
             /\ subs[req'[r].sid].status \in CancelledOrExpired)
                => Rejected(r)
         /\ (/\ Saves(r) /\ IsCancel(req[r])
             /\ subs[req[r].sid].status \in CancelledOrExpired)
                => subs' = subs]_vars

\* C5: pause is valid only from status active, where it sets status paused,
\* pausedDate to the current time and appends the reason to the notes; from
\* any other status it is rejected with no state change, by the user's pause
\* request and by the admin status override with target paused alike.
C5_PauseOnlyFromActive ==
    [][\A r \in ReqIds :
         /\ (/\ ArrivesPause(r)
             /\ req'[r].sid \in SubIds
             /\ subs[req'[r].sid].status # "active")
                => (Rejected(r) /\ subs' = subs)
         /\ (ArrivesPause(r) /\ req'[r].pc = "save")
                => req'[r].doc.pausedDate = now
         /\ (Saves(r) /\ IsPause(req[r]))
                => LET old == subs[req[r].sid]
                   IN  /\ old.status = "active"
                       /\ OnlySub(req[r].sid,
                                  [old EXCEPT !.status = "paused",
                                              !.pausedDate = req[r].doc.pausedDate,
                                              !.notes = WithEntry(old.notes, PausedTag,
                                                                  ReasonOf(req[r]))])]_vars

\* C6: resume is valid only from status paused, where it sets status active
\* and clears pausedDate; from any other status it is rejected with no
\* state change.
C6_ResumeOnlyFromPaused ==
    [][\A r \in ReqIds :
         /\ (/\ Arrives(r) /\ req'[r].op = "resume"
             /\ req'[r].sid \in SubIds
             /\ subs[req'[r].sid].status # "paused")
                => (Rejected(r) /\ subs' = subs /\ services' = services)
         /\ (Saves(r) /\ req[r].op = "resume")
                => LET old == subs[req[r].sid]
                   IN  /\ old.status = "paused"
                       /\ OnlySub(req[r].sid,
                                  [old EXCEPT !.status = "active", !.pausedDate = Null])
                       /\ services' = services]_vars

\* A resume request has just been accepted on a subscription paused before
C6_Witness ==
    \E r \in ReqIds :
        /\ req[r].op = "resume" /\ req[r].pc = "respond" /\ req[r].resp = 200
        /\ subs[req[r].sid].status = "active"
        /\ subs[req[r].sid].pausedDate = Null
        /\ PausedTag \in {subs[req[r].sid].notes[i] : i \in DOMAIN subs[req[r].sid].notes}

\* C7: a cancel accepted on a subscription in a non-terminal status sets
\* status cancelled, sets cancelledDate to the time cancel() read, and sets
\* the notes to the prior notes, a newline and the cancellation entry with
\* the reason (just the entry when there were no notes); no other field of
\* the subscription changes.
C7_CancelEffects ==
    [][\A r \in ReqIds :
         /\ (ArrivesCancel(r) /\ req'[r].pc = "save")
                => req'[r].doc.cancelledDate = now
         /\ (/\ Saves(r) /\ IsCancel(req[r])
             /\ subs[req[r].sid].status \in NonTerminal)
                => LET old == subs[req[r].sid]
                   IN  OnlySub(req[r].sid,
                               [old EXCEPT !.status = "cancelled",
                                           !.cancelledDate = req[r].doc.cancelledDate,
                                           !.notes = WithEntry(old.notes, CancelledTag,
                                                               ReasonOf(req[r]))])]_vars

\* A user's cancel has been saved on a subscription that had notes: the
\* earlier pause entry is still the start of the notes
C7_Witness ==
    \E r \in ReqIds :
        /\ req[r].op = "cancel" /\ req[r].pc = "dec_load"
        /\ LET sub == subs[req[r].sid]
           IN  /\ sub.status = "cancelled"
               /\ sub.cancelledDate = MaxNow
               /\ Len(sub.notes) > 3
               /\ sub.notes[1] = PausedTag

\* C10: the admin status override with target cancelled has the effects of
\* cancel, with target paused those of pause, with target active on a
\* paused subscription those of resume; for every other (status, target)
\* pair it writes the status field and nothing else.
C10_AdminOverride ==
    [][\A r \in ReqIds :
         (Saves(r) /\ req[r].op = "admin") =>
            LET old == subs[req[r].sid]
                target == req[r].body.status
                reason == req[r].body.reason
            IN  /\ OnlySub(req[r].sid,
                     CASE target = "cancelled" ->
                            [old EXCEPT !.status = "cancelled",
                                        !.cancelledDate = req[r].doc.cancelledDate,
                                        !.notes = WithEntry(old.notes, CancelledTag, reason)]
                       [] target = "paused" ->
                            [old EXCEPT !.status = "paused",
                                        !.pausedDate = req[r].doc.pausedDate,
                                        !.notes = WithEntry(old.notes, PausedTag, reason)]
                       [] target = "active" /\ old.status = "paused" ->
                            [old EXCEPT !.status = "active", !.pausedDate = Null]
                       [] OTHER -> [old EXCEPT !.status = target])
                /\ target = "cancelled" => req[r].doc.cancelledDate # Null
                /\ target = "paused" => req[r].doc.pausedDate # Null
                /\ services' = services]_vars

\* An override to failed has been saved on a subscription that carries a
\* pause date and notes, which it left in place
C10_Witness ==
    \E r \in ReqIds :
        /\ req[r].op = "admin" /\ req[r].pc = "respond" /\ req[r].resp = 200
        /\ subs[req[r].sid].status = "failed"
        /\ subs[req[r].sid].pausedDate # Null
        /\ subs[req[r].sid].notes # <<>>

----------------------------------------------------------------------------
(* Payment events (PaySpec) *)

\* C9: addPayment appends the record at the end of paymentHistory, leaving
\* the earlier records and their order unchanged; it sets paymentStatus to
\* paid and lastPaymentDate to the record's paidAt (the current time when
\* absent) exactly when the record's status is success, and otherwise
\* leaves both unchanged; it never changes the subscription's status.
C9_AddPayment ==
    [][\A r \in ReqIds :
         /\ (/\ Arrives(r) /\ req'[r].op = "payment" /\ req'[r].pc = "save"
             /\ req'[r].body.status = "success" /\ req'[r].body.paidAt = Null)
                => req'[r].doc.lastPaymentDate = now
         /\ (Saves(r) /\ req[r].op = "payment")
                => LET old == subs[req[r].sid]
                       new == subs'[req[r].sid]
                       data == req[r].body
                       n == Len(old.paymentHistory)
                   IN  /\ Len(new.paymentHistory) = n + 1
                       /\ SubSeq(new.paymentHistory, 1, n) = old.paymentHistory
                       /\ new.paymentHistory[n + 1].status =
                            (IF data.status = Undefined THEN "pending" ELSE data.status)
                       /\ data.paidAt # Null
                            => new.paymentHistory[n + 1].paidAt = data.paidAt
                       /\ new.status = old.status
                       /\ OnlySub(req[r].sid,
                            [old EXCEPT
                               !.paymentHistory = new.paymentHistory,
                               !.paymentStatus =
                                  IF data.status = "success" THEN "paid" ELSE @,
                               !.lastPaymentDate =
                                  IF data.status # "success" THEN @
                                  ELSE IF data.paidAt # Null THEN data.paidAt
                                  ELSE req[r].doc.lastPaymentDate])]_vars

\* A successful payment has been added after an earlier record, on a
\* subscription that is cancelled and stays so
C9_Witness ==
    \E r \in ReqIds :
        /\ req[r].op = "payment" /\ req[r].pc = "respond" /\ req[r].resp = 200
        /\ LET sub == subs[req[r].sid]
           IN  /\ Len(sub.paymentHistory) = 2
               /\ sub.paymentHistory[1].status = "failed"
               /\ sub.paymentHistory[2].status = "success"
               /\ sub.paymentStatus = "paid"
               /\ sub.status = "cancelled"

----------------------------------------------------------------------------
(* Rejected requests (Spec) *)

UserOps == {"cancel", "pause", "resume", "update"}

\* The statuses from which each request of a user is refused
Incompatible(op) ==
    CASE op = "cancel" -> {"cancelled", "expired"}
      [] op = "pause" -> Statuses \ {"active"}
      [] op = "resume" -> Statuses \ {"paused"}
      [] op = "update" -> Statuses \ {"pending", "active"}

\* C11: a cancel, pause, resume or update request on a subscription that
\* does not exist, that the requester neither owns nor administers, or whose
\* status is incompatible, is rejected, and from its arrival to its return
\* it changes no field of any subscription and no service counter; only a
\* request that passed all three guards ever writes.
C11_RejectedWritesNothing ==
    [][\A r \in ReqIds :
         /\ (Arrives(r) /\ req'[r].op \in UserOps /\ ~Rejected(r))
                => /\ req'[r].sid \in SubIds
                   /\ req'[r].user = Admin \/ subs[req'[r].sid].userId = req'[r].user
                   /\ subs[req'[r].sid].status \notin Incompatible(req'[r].op)
         /\ (Arrives(r) /\ req'[r].op \in UserOps /\ Rejected(r))
                => (subs' = subs /\ services' = services
                    /\ req'[r].resp \in {400, 403, 404})
         /\ (req[r].op \in UserOps /\ req[r].pc = "respond" /\ req[r].resp >= 400)
                => (subs' = subs /\ services' = services)]_vars

\* An update has just been refused for a paused subscription that has
\* notes and a pause date, after another request changed its address
C11_Witness ==
    \E r \in ReqIds :
        /\ req[r].op = "update" /\ req[r].pc = "respond" /\ req[r].resp = 400
        /\ subs[req[r].sid].status = "paused"
        /\ subs[req[r].sid].pausedDate # Null
        /\ subs[req[r].sid].address = "office"

----------------------------------------------------------------------------
(* Creation requests (OrderSpec) *)

\* The creation request at r is over and was refused
Refused(q) == q.op = "create" /\ q.pc = "respond" /\ q.resp >= 400

\* C12: a creation request that is rejected creates no subscription and
\* changes no service counter, from its arrival to its return; a creation
\* request writes nothing before its checks and its pricing are done: the
\* subscription it inserts is the priced document it built, valid under
\* the schema, and the counters move only once that insert is made.
C12_RejectedCreatesNothing ==
    [][\A r \in ReqIds :
         /\ (Refused(req[r]) \/ Refused(req'[r]))
                => (subs' = subs /\ services' = services)
         /\ (req[r].op = "create" /\ req[r].pc \in {"idle", "find"})
                => (subs' = subs /\ services' = services)
         /\ (req[r].op = "create" /\ subs' # subs)
                => /\ req[r].pc = "save"
                   /\ req[r].body.services # <<>>
                   /\ Len(subs') = Len(subs) + 1
                   /\ subs'[Len(subs')].pricing = req[r].doc.pricing
                   /\ subs'[Len(subs')].pricing.total
                        = Subtotal(req[r].doc.services)
                            + subs'[Len(subs')].pricing.taxes
                   /\ subs'[Len(subs')].billingCycle \in BillingCycles
                   /\ services' = services
         /\ (req[r].op = "create" /\ services' # services)
                => /\ req[r].pc = "inc"
                   /\ req[r].sid \in SubIds
                   /\ subs' = subs
         /\ (req[r].op = "create" /\ req[r].pc = "inc")
                => ~Refused(req'[r])]_vars

\* A creation request has been refused by the schema at its save, after
\* the pricing: there is no subscription and no counter has moved
C12_Witness ==
    \E r \in ReqIds :
        /\ req[r].op = "create" /\ req[r].pc = "respond" /\ req[r].resp = 500
        /\ subs = <<>>
        /\ services[2].currentSubscriptions = 0

\* The handler at r runs its checks in this step
Checks(r) == req[r].op = "create" /\ req[r].pc = "find" /\ req'[r].pc # "find"

\* C13: when a service has maxSubscriptions set (non-null) and
\* currentSubscriptions >= maxSubscriptions, every creation request with a
\* line item for that service is rejected.
C13_FullServiceRejects ==
    [][\A r \in ReqIds :
         (/\ Checks(r)
          /\ \E i \in DOMAIN req[r].body.services :
                LET service == services[req[r].body.services[i].serviceId]
                IN  /\ service.maxSubscriptions # Null
                    /\ service.currentSubscriptions >= service.maxSubscriptions)
            => Refused(req'[r])]_vars

\* C15: every line item of every created subscription has a quantity no
\* greater than its service's maxQuantityPerUser, and its service is active.
C15_QuantityWithinMax ==
    \A id \in SubIds : \A i \in DOMAIN subs[id].services :
        LET item == subs[id].services[i]
        IN  /\ item.quantity <= services[item.serviceId].maxQuantityPerUser
            /\ services[item.serviceId].isActive

\* C16: every line item of every created subscription whose service is of
\* the Silver category and has maxOnlineOrderValue set has
\* priceAtSubscription.amount x quantity <= maxOnlineOrderValue.
C16_SilverWithinOnlineLimit ==
    \A id \in SubIds : \A i \in DOMAIN subs[id].services :
        LET item == subs[id].services[i]
            service == services[item.serviceId]
        IN  (service.category = "Silver" /\ service.maxOnlineOrderValue # Null)
               => item.priceAtSubscription.amount * item.quantity
                    <= service.maxOnlineOrderValue

\* Sum of amount x quantity over the line items from position i on
RECURSIVE LineTotal(_, _)
LineTotal(items, i) ==
    IF i > Len(items) THEN 0
    ELSE items[i].priceAtSubscription.amount * items[i].quantity + LineTotal(items, i + 1)

\* C17: for every created subscription, in every state: subtotal is the sum
\* over the line items of priceAtSubscription.amount x quantity, taxes is
\* subtotal x 0.18 rounded to the nearest integer with a half going up,
\* total = subtotal + taxes - discounts with discounts 0, and all four are
\* >= 0.
C17_PricingEquations ==
    \A id \in SubIds :
        LET p == subs[id].pricing
        IN  /\ p.subtotal = LineTotal(subs[id].services, 1)
            /\ 100 * p.taxes - 50 <= 18 * p.subtotal
            /\ 18 * p.subtotal < 100 * p.taxes + 50
            /\ p.discounts = 0
            /\ p.total = p.subtotal + p.taxes - p.discounts
            /\ p.subtotal >= 0 /\ p.taxes >= 0 /\ p.total >= 0

\* A subscription whose tax is a rounded-up half (25 x 0.18 = 4.5) has been
\* cancelled and still carries its pricing
C17_Witness ==
    \E id \in SubIds :
        /\ subs[id].pricing.subtotal = 25
        /\ subs[id].pricing.taxes = 5
        /\ subs[id].pricing.total = 30
        /\ subs[id].status = "cancelled"

\* C18: for every created subscription, pricing.currency equals the
\* currency of each of its line items' price snapshots.
C18_CurrencyCarried ==
    \A id \in SubIds : \A i \in DOMAIN subs[id].services :
        subs[id].pricing.currency = subs[id].services[i].priceAtSubscription.currency

----------------------------------------------------------------------------
(* The per-user limit (LimitSpec) *)

\* C14: in every state reachable through creation requests and status
\* changes, no user owns more than 5 subscriptions whose status is active.
C14_AtMostFiveActive == \A u \in Users : ActiveCount(u) <= UserLimit

----------------------------------------------------------------------------
(* Billing dates (BillSpec) *)

\* C19: every persisted subscription has nextBillingDate = null exactly
\* when its billingCycle is one-time; the save that inserts a subscription
\* computes nextBillingDate from its startDate and billingCycle; a save
\* that changes neither (cancel, pause, resume, override, update,
\* addPayment) leaves nextBillingDate, startDate and billingCycle as they
\* were.
C19_NextBillingKept ==
    /\ [](\A id \in SubIds :
            (subs[id].nextBillingDate = Null) <=> (subs[id].billingCycle = "one-time"))
    /\ [][\A r \in ReqIds :
            /\ (req[r].op = "create" /\ subs' # subs)
                  => LET new == subs'[Len(subs')]
                     IN  /\ new.startDate = req[r].doc.startDate
                         /\ new.billingCycle = req[r].doc.billingCycle
                         /\ new.nextBillingDate
                              = NextBilling(new.startDate, new.billingCycle)
            /\ Saves(r)
                  => \A id \in SubIds :
                        /\ subs'[id].nextBillingDate = subs[id].nextBillingDate
                        /\ subs'[id].startDate = subs[id].startDate
                        /\ subs'[id].billingCycle = subs[id].billingCycle]_vars

\* A one-time subscription, without a next billing date, has been paid for
\* and paused
C19_Witness ==
    \E id \in SubIds :
        /\ subs[id].billingCycle = "one-time"
        /\ subs[id].nextBillingDate = Null
        /\ subs[id].status = "paused"
        /\ Len(subs[id].paymentHistory) >= 1

\* Calendar months a billing cycle spans
CycleMonths(cycle) ==
    CASE cycle = "monthly" -> 1
      [] cycle = "quarterly" -> 3
      [] cycle = "yearly" -> 12

\* C20: for every start date whose day of the month exists in the target
\* month, the next billing date is the same day of the month one calendar
\* month later (monthly), three calendar months later (quarterly) or one
\* year later in the same month (yearly), the year advancing when the month
\* passes December; computing it again from the unchanged start date and
\* cycle gives the stored date.
C20_CalendarMonths ==
    \A id \in SubIds :
        LET sub == subs[id]
            start == Civil(sub.startDate)
            months == start.m + CycleMonths(sub.billingCycle)
            year == IF months > 24 THEN start.y + 2
                    ELSE IF months > 12 THEN start.y + 1 ELSE start.y
            month == IF months > 24 THEN months - 24
                     ELSE IF months > 12 THEN months - 12 ELSE months
        IN  sub.billingCycle # "one-time" =>
               /\ start.d <= DaysInMonth(year, month)
                     => Civil(sub.nextBillingDate)
                          = [y |-> year, m |-> month, d |-> start.d]
               /\ sub.billingCycle = "yearly" => (year = start.y + 1 /\ month = start.m)
               /\ NextBilling(sub.startDate, sub.billingCycle) = sub.nextBillingDate

\* A quarterly subscription started on 2024-10-31 is billed next on
\* 2025-01-31, past the end of the year; it has since been cancelled
C20_Witness ==
    \E id \in SubIds :
        /\ subs[id].status = "cancelled"
        /\ Civil(subs[id].startDate) = [y |-> 2024, m |-> 10, d |-> 31]
        /\ subs[id].billingCycle = "quarterly"
        /\ Civil(subs[id].nextBillingDate) = [y |-> 2025, m |-> 1, d |-> 31]

\* C21: for a monthly cycle the next billing date always falls in the
\* calendar month immediately following the start date's month, also when
\* the start day of the month does not exist in that month: a start on
\* 2024-01-31 gives a next billing date in February 2024.
C21_MonthlyNextMonth ==
    \A id \in SubIds :
        LET start == Civil(subs[id].startDate)
            next == Civil(subs[id].nextBillingDate)
        IN  subs[id].billingCycle = "monthly" =>
               /\ next.m = (IF start.m = 12 THEN 1 ELSE start.m + 1)
               /\ next.y = (IF start.m = 12 THEN start.y + 1 ELSE start.y)

----------------------------------------------------------------------------
(* GET /api/subscriptions/:id *)

\* findById with its populate calls, then the ownership check; the handler
\* answers with the subscription and writes nothing
GetLoad(r, u, id) ==
    /\ ~Busy(r)
    /\ req' =
         IF id \notin SubIds THEN Answer(r, "get", u, id, 404)
         ELSE IF Denied(u, id) THEN Answer(r, "get", u, id, 403)
         ELSE Answer(r, "get", u, id, 200)
    /\ UNCHANGED <<services, subs, now, cancelLog>>

----------------------------------------------------------------------------
(* Ownership: a subscription of either user, addressed by both users and
   the administrator; their requests on it overlap *)

OwnInit ==
    /\ services = [s \in ServiceIds |-> NewService(Null)]
    /\ subs = <<>>
    /\ req = [r \in ReqIds |-> Idle]
    /\ now = 1
    /\ cancelLog = [id \in 1..MaxSubs |-> NoCancels]

\* A user's request on subscription id: read, update, cancel, pause, resume
UserRequest(r, u, id) ==
    \/ GetLoad(r, u, id)
    \/ UpdateLoad(r, u, id, "office")
    \/ CancelLoad(r, u, id, NoReason)
    \/ PauseLoad(r, u, id, NoReason)
    \/ ResumeLoad(r, u, id)

OwnBegin(r) ==
    \/ /\ Quiet
       /\ \/ /\ Len(subs) < LifeSubs
             /\ \E u \in Users :
                   CreateLimits(r, u, <<[serviceId |-> 1, quantity |-> Null]>>, Undefined)
          \/ \E id \in Targets : AdminLoad(r, id, "active", NoReason)
    \/ \E u \in Principals, id \in Targets : UserRequest(r, u, id)

OwnNext ==
    \/ \E r \in ReqIds : OwnBegin(r)
    \/ \E r \in ReqIds : Step(r)

OwnSpec == OwnInit /\ [][OwnNext]_vars

\* The requests of a user on one subscription
OwnedOps == {"get", "update", "cancel", "pause", "resume"}

----------------------------------------------------------------------------
(* PUT /api/admin/services/:id *)

\* price of the request body: a new amount, with or without a currency
PriceInputs == [amount : {700}, currency : {"USD", Undefined}, billingCycle : {"yearly"}]

\* findByIdAndUpdate(id, {...req.body}): one write that replaces the price
ServiceUpdate(r, s, price) ==
    /\ ~Busy(r)
    /\ services' = [services EXCEPT ![s].amount = price.amount,
                                    ![s].currency = price.currency,
                                    ![s].priceBillingCycle = price.billingCycle]
    /\ req' = Answer(r, "service", Admin, 0, 200)
    /\ UNCHANGED <<subs, now, cancelLog>>

----------------------------------------------------------------------------
(* Price changes: one subscription, its lifecycle and payments, while the
   administrator changes the price of its first service; one request at a
   time *)

PriceBegin(r) ==
    /\ Quiet
    /\ \/ /\ Len(subs) < LifeSubs
          /\ \E items \in RaceItemLists : CreateLimits(r, "u1", items, Undefined)
       \/ \E price \in PriceInputs : ServiceUpdate(r, 1, price)
       \/ \E id \in Targets : CancelLoad(r, "u1", id, NoReason)
       \/ \E id \in Targets : PauseLoad(r, "u1", id, NoReason)
       \/ \E id \in Targets : ResumeLoad(r, "u1", id)
       \/ \E id \in Targets, status \in {"active", "failed"} :
             AdminLoad(r, id, status, NoReason)
       \/ \E id \in Targets : UpdateLoad(r, "u1", id, "office")
       \/ \E id \in Targets :
             PaymentLoad(r, id, [status |-> "success", paidAt |-> Null])

PriceNext ==
    \/ PriceBegin("a")
    \/ \E r \in ReqIds : BillStep(r)

PriceSpec == OwnInit /\ [][PriceNext]_vars

\* The price snapshots of a subscription's line items, in order
Snapshots(sub) == [i \in DOMAIN sub.services |-> sub.services[i].priceAtSubscription]

\* C23: once a subscription is created, each line item's priceAtSubscription
\* (amount, currency, billingCycle) and the subscription's pricing never
\* change under any later operation (update, cancel, pause, resume,
\* addPayment, admin status override), also after an administrator has
\* changed the price of the referenced service.
C23_SnapshotImmutable ==
    [][\A id \in SubIds :
         /\ Snapshots(subs'[id]) = Snapshots(subs[id])
         /\ subs'[id].pricing = subs[id].pricing]_vars

\* A subscription priced at 500 has been updated by its owner after the
\* price of its service went to 700 USD: it still carries 500 INR, monthly
C23_Witness ==
    \E r \in ReqIds :
        /\ req[r].op = "update" /\ req[r].pc = "respond" /\ req[r].resp = 200
        /\ services[1].amount = 700 /\ services[1].currency = "USD"
        /\ LET sub == subs[req[r].sid]
           IN  /\ sub.address = "office"
               /\ sub.services[1].priceAtSubscription
                    = [amount |-> 500, currency |-> "INR", billingCycle |-> "monthly"]
               /\ sub.pricing.subtotal = 500 * Len(sub.services)

----------------------------------------------------------------------------
(* Counters: creation, the user's cancel and the administrator's status
   override, one request at a time, all counters starting at 0 *)

CountBegin(r) ==
    /\ Quiet
    /\ \/ /\ Len(subs) < LifeSubs
          /\ \E items \in LifeItemLists : CreateLimits(r, "u1", items, Undefined)
       \/ \E id \in Targets, reason \in Reasons : CancelLoad(r, "u1", id, reason)
       \/ \E id \in Targets, status \in Statuses, reason \in Reasons :
             AdminLoad(r, id, status, reason)

CountStep(r) ==
    \/ RaceStep(r)
    \/ AdminSave(r)

CountNext ==
    \/ CountBegin("a")
    \/ \E r \in ReqIds : CountStep(r)

CountSpec == Init /\ [][CountNext]_vars

\* C24: in every state reached by creation, user cancel and admin status
\* override requests made one after another, with all counters at 0 at the
\* start, each service's currentSubscriptions equals the number of
\* subscriptions not in status cancelled that hold a line item for it.
C24_CounterMatchesLive ==
    Quiet =>
        \A s \in ServiceIds :
            services[s].currentSubscriptions
                = Cardinality({id \in Referencing(s) : subs[id].status # "cancelled"})

----------------------------------------------------------------------------
(* The order of the creation checks: orders of one or two services of
   several configurations, by a user with no subscription or with one
   active subscription fewer than the limit; one request at a time *)

CheckConfigs ==
    { NewService(Null),
      [NewService(Null) EXCEPT !.isActive = FALSE],
      [NewService(1) EXCEPT !.currentSubscriptions = 1],
      [NewService(Null) EXCEPT !.category = "Silver", !.amount = 6000,
                               !.maxOnlineOrderValue = 10000,
                               !.maxQuantityPerUser = 2] }

CheckQuantities == {1, 2}

\* Orders that name no service twice
CheckItemLists ==
    {q \in SeqsUpTo([serviceId : ServiceIds, quantity : CheckQuantities], MaxItems) :
        \A i, j \in DOMAIN q : q[i].serviceId = q[j].serviceId => i = j}

\* A subscription of the user made earlier and activated by the administrator
PriorSub ==
    [PreSave(NewSubscription("u1", StoredItems(<<[serviceId |-> 2, quantity |-> Null]>>),
                             Undefined, 1),
             TRUE, {}, 1)
       EXCEPT !.status = "active"]

CheckInit ==
    /\ services \in [ServiceIds -> CheckConfigs]
    /\ subs \in {<<>>, [i \in 1..(UserLimit - 1) |-> PriorSub]}
    /\ req = [r \in ReqIds |-> Idle]
    /\ now = 1
    /\ cancelLog = [id \in 1..MaxSubs |-> NoCancels]

CheckBegin(r) ==
    /\ Quiet
    /\ Len(subs) \in {0, UserLimit - 1}
    /\ \E items \in CheckItemLists : CreateLimits(r, "u1", items, Undefined)

CheckStep(r) ==
    \/ CreateFind(r)
    \/ CreateSave(r)
    \/ CreateInc(r)
    \/ Finish(r)

CheckNext ==
    \/ CheckBegin("a")
    \/ \E r \in ReqIds : CheckStep(r)

CheckSpec == CheckInit /\ [][CheckNext]_vars

\* The first of the four checks that a line item violates, or "ok"
ViolatedCheck(item) ==
    LET service == services[item.serviceId]
    IN  IF ~service.isActive THEN "unavailable"
        ELSE IF item.quantity > service.maxQuantityPerUser THEN "quantity"
        ELSE IF /\ service.maxSubscriptions # Null
                /\ service.currentSubscriptions >= service.maxSubscriptions
             THEN "capacity"
        ELSE IF /\ service.category = "Silver"
                /\ service.maxOnlineOrderValue # Null
                /\ service.amount * item.quantity > service.maxOnlineOrderValue
             THEN "quote"
        ELSE "ok"

\* C25: creation validation is fail-fast in a fixed order: the per-user
\* limit is evaluated first; then the line items are scanned in request
\* order and, for each item, the checks run as (1) service exists and is
\* active, (2) quantity <= maxQuantityPerUser, (3) capacity, (4) quote
\* limit; the rejection returned is that of the first violated check in
\* this order.
C25_FailFastOrder ==
    [][\A r \in ReqIds :
         /\ (Arrives(r) /\ req'[r].op = "create")
               => IF req'[r].pc = "respond"
                  THEN req'[r].msg.check = "limit"
                  ELSE ActiveCount(req'[r].user) + Len(req'[r].body.services)
                         <= UserLimit
         /\ (Checks(r) /\ req[r].body.services # <<>>)
               => LET items == req[r].body.services
                      bad == {i \in DOMAIN items : ViolatedCheck(items[i]) # "ok"}
                      first == CHOOSE i \in bad : \A j \in bad : i <= j
                  IN  IF bad = {} THEN ~Refused(req'[r])
                      ELSE /\ Refused(req'[r])
                           /\ req'[r].msg.check = ViolatedCheck(items[first])]_vars

----------------------------------------------------------------------------
(* Counter increments of a creation (OrderSpec) *)

\* The services a subscription holds a line item for
ServicesOf(sub) == {sub.services[i].serviceId : i \in DOMAIN sub.services}

\* C26: a successful creation increases currentSubscriptions of each
\* service referenced by the new subscription by exactly 1, whatever the
\* line item's quantity (2 units of one service: +1), and leaves every
\* other service's counter unchanged (requests made one after another).
C26_OneIncrementPerService ==
    [][\A r \in ReqIds :
         /\ (req[r].op = "create" /\ req[r].pc # "inc") => services' = services
         /\ (req[r].op = "create" /\ req[r].pc = "inc")
               => LET sub == subs[req[r].sid]
                      found == req[r].found
                      f == found[req[r].idx]
                  IN  /\ f.id \in ServicesOf(sub)
                      /\ services'[f.id].currentSubscriptions
                           = services[f.id].currentSubscriptions + 1
                      /\ \A s \in ServiceIds \ {f.id} : services'[s] = services[s]
                      /\ req'[r].pc = "respond"
                           => /\ req'[r].resp = 201
                              /\ {found[i].id : i \in DOMAIN found} = ServicesOf(sub)
                              /\ Len(found) = Len(sub.services)
                              /\ \A i \in DOMAIN found :
                                    services'[found[i].id].currentSubscriptions
                                      = found[i].doc.currentSubscriptions + 1]_vars

\* A creation has just succeeded for 2 units of service 1 and a line of
\* service 2: both counters stand at 1
C26_Witness ==
    \E r \in ReqIds :
        /\ req[r].op = "create" /\ req[r].pc = "respond" /\ req[r].resp = 201
        /\ LET sub == subs[req[r].sid]
           IN  /\ Len(sub.services) = 2
               /\ sub.services[1].serviceId = 1 /\ sub.services[1].quantity = 2
               /\ sub.services[2].serviceId = 2
        /\ services[1].currentSubscriptions = 1
        /\ services[2].currentSubscriptions = 1

----------------------------------------------------------------------------
(* The user's requests on one subscription, overlapping: the administrator
   has brought the subscription to some status, then the owner's update,
   cancel, pause and resume requests run at the same time *)

TurnBegin(r) ==
    \/ /\ Quiet
       /\ \/ /\ Len(subs) < LifeSubs
             /\ CreateLimits(r, "u1", <<[serviceId |-> 1, quantity |-> Null]>>, Undefined)
          \/ \E id \in Targets, status \in {"active", "expired", "failed"} :
                AdminLoad(r, id, status, NoReason)
    \/ /\ \A q \in ReqIds : req[q].op \in UserOps \cup {"none"}
       /\ \E id \in Targets :
             \/ CancelLoad(r, "u1", id, NoReason)
             \/ PauseLoad(r, "u1", id, NoReason)
             \/ ResumeLoad(r, "u1", id)
             \/ UpdateLoad(r, "u1", id, "office")

TurnNext ==
    \/ \E r \in ReqIds : TurnBegin(r)
    \/ \E r \in ReqIds : Step(r)

TurnSpec == OwnInit /\ [][TurnNext]_vars

\* The status changes the user's requests are to make
UserTurns ==
    {<<"active", "paused">>, <<"paused", "active">>}
        \cup {<<s, "cancelled">> : s \in NonTerminal}

\* C27: through the non-admin subscription requests (create, update,
\* cancel, pause, resume) the only status changes are: creation into
\* pending, active to paused, paused to active, and pending, active, paused
\* or failed to cancelled; cancelled and expired are absorbing, and no
\* non-admin request moves a pending subscription to active.
C27_UserTurns ==
    [][\A r \in ReqIds :
         /\ (req[r].op = "create" /\ subs' # subs)
               => (Len(subs') = Len(subs) + 1 /\ subs'[Len(subs')].status = "pending"
                   /\ \A id \in SubIds : subs'[id].status = subs[id].status)
         /\ (req[r].op \in UserOps /\ req'[r] # req[r])
               => \A id \in SubIds :
                     \/ subs'[id].status = subs[id].status
                     \/ <<subs[id].status, subs'[id].status>> \in UserTurns]_vars

----------------------------------------------------------------------------
(* Status and its dates (Spec) *)

\* C28: for every subscription created through the creation endpoint, in
\* every state reached by user requests and admin status overrides, status
\* cancelled implies that cancelledDate is set and status paused implies
\* that pausedDate is set.
C28_StatusHasItsDate ==
    \A id \in SubIds :
        /\ subs[id].status = "cancelled" => subs[id].cancelledDate # Null
        /\ subs[id].status = "paused" => subs[id].pausedDate # Null

\* A subscription that was cancelled and brought back by the administrator
\* has been paused: it carries both dates
C28_Witness ==
    \E id \in SubIds :
        /\ subs[id].status = "paused"
        /\ subs[id].pausedDate # Null
        /\ subs[id].cancelledDate # Null
        /\ Entries(subs[id].notes) = 2

----------------------------------------------------------------------------
(* DELETE /api/admin/services/:id and reactivation *)

\* findByIdAndUpdate(id, {'availability.isActive': false}): one write
ServiceDelete(r, s) ==
    /\ ~Busy(r)
    /\ services' = [services EXCEPT ![s].isActive = FALSE]
    /\ req' = Answer(r, "delete", Admin, 0, 200)
    /\ UNCHANGED <<subs, now, cancelLog>>

\* PUT /api/admin/services/:id with {'availability.isActive': true}
ServiceActivate(r, s) ==
    /\ ~Busy(r)
    /\ services' = [services EXCEPT ![s].isActive = TRUE]
    /\ req' = Answer(r, "activate", Admin, 0, 200)
    /\ UNCHANGED <<subs, now, cancelLog>>

----------------------------------------------------------------------------
(* Deactivation: the administrator deactivates and reactivates service 1
   while creation requests for it run *)

ActBegin(r) ==
    \/ /\ Len(subs) + Creating < MaxSubs
       /\ \E items \in RaceItemLists : CreateLimits(r, "u1", items, Undefined)
    \/ ServiceDelete(r, 1)
    \/ ServiceActivate(r, 1)

ActStep(r) ==
    \/ CreateFind(r)
    \/ CreateSave(r)
    \/ CreateInc(r)
    \/ Finish(r)

ActNext ==
    \/ \E r \in ReqIds : ActBegin(r)
    \/ \E r \in ReqIds : ActStep(r)

ActSpec == OwnInit /\ [][ActNext]_vars

\* C29: after an administrator deactivates a service, every creation
\* request that references that service is rejected until the service is
\* reactivated: a request whose service lookup runs while the service is
\* inactive is refused and writes nothing; the deactivation itself changes
\* no existing subscription and leaves the service's currentSubscriptions
\* and every other field of it as they were.
C29_InactiveRejects ==
    [][\A r \in ReqIds :
         /\ (/\ Checks(r)
             /\ \E i \in DOMAIN req[r].body.services :
                   ~services[req[r].body.services[i].serviceId].isActive)
               => /\ Refused(req'[r])
                  /\ subs' = subs /\ services' = services
         /\ (Arrives(r) /\ req'[r].op = "delete")
               => /\ subs' = subs
                  /\ \E s \in ServiceIds :
                        services' = [services EXCEPT ![s].isActive = FALSE]]_vars

\* A creation request for service 1 has been refused while the service is
\* inactive; the subscription made before is there and the counter still 1
C29_Witness ==
    \E r \in ReqIds :
        /\ Refused(req[r]) /\ req[r].msg.check = "unavailable"
        /\ ~services[1].isActive
        /\ services[1].currentSubscriptions = 1
        /\ Len(subs) = 1 /\ subs[1].status = "pending"

----------------------------------------------------------------------------
(* The update request (TurnSpec) *)

\* C30: the update request is accepted only when the subscription's status
\* is pending or active, and an accepted update changes only the address
\* (and installation): status, paymentStatus, services, pricing,
\* billingCycle, the dates (nextBillingDate included), paymentHistory and
\* all service counters are unchanged.
C30_UpdateOnlyAddress ==
    [][\A r \in ReqIds :
         /\ (/\ Arrives(r) /\ req'[r].op = "update"
             /\ req'[r].sid \in SubIds
             /\ subs[req'[r].sid].status \notin {"pending", "active"})
               => (Rejected(r) /\ subs' = subs /\ services' = services)
         /\ (Saves(r) /\ req[r].op = "update")
               => /\ OnlySub(req[r].sid,
                             [subs[req[r].sid] EXCEPT
                                !.address = IF req[r].body # Undefined
                                            THEN req[r].body ELSE @])
                  /\ services' = services
         /\ (req[r].op = "update" /\ req'[r] # req[r] /\ ~Saves(r))
               => (subs' = subs /\ services' = services)]_vars

\* An update of an active subscription has been saved: the address is the
\* new one, the status and the next billing date are as before
C30_Witness ==
    \E r \in ReqIds :
        /\ req[r].op = "update" /\ req[r].pc = "respond" /\ req[r].resp = 200
        /\ LET sub == subs[req[r].sid]
           IN  /\ sub.address = "office"
               /\ sub.status = "active"
               /\ sub.nextBillingDate # Null
               /\ sub.nextBillingDate = NextBilling(sub.startDate, sub.billingCycle)

====
